---- MODULE Spec2Model ----
(***************************************************************************)
(* DDL synthesis of mamba's SQL backends (mamba/enterprise/mysql.py and    *)
(* mamba/enterprise/postgres.py).                                          *)
(*                                                                         *)
(* Text is a sequence of pieces: the literal pieces of the source's format *)
(* strings and the values substituted into them, in order.  The generated  *)
(* string is the concatenation of the pieces.                              *)
(***************************************************************************)
EXTENDS Integers, Sequences, FiniteSets, TLC

VARIABLES
    backend,                  \* "MySQL" | "PostgreSQL": the adapter class
    model,                    \* self.model: table, columns, references, attributes
    create_table_behaviours,  \* config.Database().create_table_behaviours
    drop_table_behaviours,    \* config.Database().drop_table_behaviours
    literal,                  \* a Decimal's size as written in the model definition
    size,                     \* the value it evaluates to: the column's size
    op,                       \* the method last called ("" before any call)
    arg,                      \* index of the column the call was about (0: none)
    result                    \* what the call returned or raised

vars == <<backend, model, create_table_behaviours, drop_table_behaviours,
          literal, size, op, arg, result>>

----------------------------------------------------------------------------
(* Python values *)

PyTrue == "True"
PyFalse == "False"
PyNone == "None"
NoAttr == "<no attribute>"

\* the backtick character, which a TLA+ string cannot hold
BQ == "<backtick>"

\* bool(v) for the configuration values: None and False are falsy.
Truthy(v) == v = PyTrue

\* dict.get(key, default)
Get(d, key, default) == IF key \in DOMAIN d THEN d[key] ELSE default

\* A size: an int (n), a str (s: its characters), a tuple (s: its items), a float
\* (n.s) or Undef.
Undef == [t |-> "Undef", n |-> 0, s |-> <<>>]

\* A default value: its type and its str(); Undef when the column has none.
NoDefault == [t |-> "Undef", v |-> ""]

\* What a call returns or raises.
Ok(text) == [ok |-> TRUE, err |-> "", val |-> "str", text |-> text]
NoneV == [ok |-> TRUE, err |-> "", val |-> "None", text |-> <<>>]
PairV(a, b) == [ok |-> TRUE, err |-> "", val |-> "tuple", text |-> <<a, b>>]
Raise(e) == [ok |-> FALSE, err |-> e, val |-> "", text |-> <<>>]

\* bool(r) of a returned str or None: '' and None are falsy.
TruthyStr(r) == r.val = "str" /\ r.text /= <<>>

RECURSIVE Join(_, _)
\* sep.join(parts), parts a sequence of texts
Join(sep, parts) ==
    IF parts = <<>> THEN <<>>
    ELSE IF Len(parts) = 1 THEN parts[1]
    ELSE parts[1] \o <<sep>> \o Join(sep, Tail(parts))

RECURSIVE Concat(_)
\* ''.join(parts)
Concat(parts) ==
    IF parts = <<>> THEN <<>> ELSE parts[1] \o Concat(Tail(parts))

----------------------------------------------------------------------------
(* Column kinds: the property classes and the dispatch on them *)

IntKinds == {"Int", "SmallInt", "BigInt"}
TemporalVariables == {"DateTimeVariable", "TimeVariable", "DateVariable"}

VariableClass(kind) ==
    CASE kind = "NativeEnum" -> "NativeEnumVariable"
      [] kind = "DateTime" -> "DateTimeVariable"
      [] kind = "Date" -> "DateVariable"
      [] kind = "Time" -> "TimeVariable"
      [] OTHER -> kind \o "Variable"

Lower(kind) ==
    CASE kind = "Int" -> "int"
      [] kind = "SmallInt" -> "smallint"
      [] kind = "BigInt" -> "bigint"
      [] kind = "Decimal" -> "decimal"
      [] OTHER -> kind

----------------------------------------------------------------------------
(* Helpers inherited from CommonSQL *)

\* CommonSQL._null_allowed
Common_null_allowed(column) ==
    IF column.allow_none THEN <<>> ELSE <<" NOT NULL">>

\* CommonSQL._parse_unicode
Common_parse_unicode(column) ==
    IF column.size.t = "Undef" THEN Ok(<<"varchar">>)
    ELSE Ok(<<"varchar", "(", ToString(column.size.n), ")">>)

\* CommonSQL._parse_float
Common_parse_float(column) == Ok(<<"float">>)

\* The default clause, shared shape of MySQL._default and CommonSQL._default:
\* quoted says whether the value was wrapped in single quotes.
DefaultClause(value, quoted) ==
    IF value.t = "Undef" THEN <<>>
    ELSE IF quoted THEN <<" default ", "'", value.v, "'">>
    ELSE <<" default ", value.v>>

\* int(True) = 1, int(False) = 0
BoolToInt(value) ==
    IF value.t = "bool"
    THEN [t |-> "int", v |-> IF value.v = "True" THEN "1" ELSE "0"]
    ELSE value

\* CommonSQL._default
Common_default(column) ==
    LET value == BoolToInt(column.default)
    IN DefaultClause(value,
           column.variable_class \in TemporalVariables /\ value.t /= "Undef")

----------------------------------------------------------------------------
(* mysql.py: parse_decimal_size and its registered handlers *)

Digit(d) == ToString(d)

RECURSIVE Digits(_)
\* the characters of str(n) for an int n >= 0
Digits(n) == IF n < 10 THEN <<Digit(n)>> ELSE Digits(n \div 10) \o <<Digit(n % 10)>>

IntV(n) == [t |-> "int", n |-> n, s |-> <<>>]
StrV(chars) == [t |-> "str", n |-> 0, s |-> chars]
TupleV(items) == [t |-> "tuple", n |-> 0, s |-> items]

RECURSIVE StripZeros(_)
\* the fraction digits a float keeps: trailing zeros are no part of the value
StripZeros(frac) ==
    IF Len(frac) > 1 /\ frac[Len(frac)] = "0"
    THEN StripZeros(SubSeq(frac, 1, Len(frac) - 1))
    ELSE frac

\* the float written p.s (frac: the characters of s as written)
FloatV(p, frac) == [t |-> "float", n |-> p, s |-> StripZeros(frac)]

\* str(f) of a float
StrOfFloat(f) == Digits(f.n) \o <<".">> \o f.s

RECURSIVE Split(_, _)
\* chars.split(sep), sep one character
Split(chars, sep) ==
    IF \E i \in 1..Len(chars) : chars[i] = sep
    THEN LET i == CHOOSE k \in 1..Len(chars) :
                      /\ chars[k] = sep
                      /\ \A j \in 1..(k - 1) : chars[j] /= sep
         IN <<SubSeq(chars, 1, i - 1)>>
                \o Split(SubSeq(chars, i + 1, Len(chars)), sep)
    ELSE <<chars>>

\* the fallback: column_name.lower()
parse_decimal_size_default(sz, column_name) ==
    [ok |-> TRUE, err |-> "", val |-> "str", text |-> <<Lower(column_name)>>]

_parse_decimal_size_list(sz, column_name) ==
    IF Len(sz.s) < 2 THEN Raise("IndexError")
    ELSE PairV(sz.s[1], sz.s[2])

_parse_decimal_size_str(sz, column_name) ==
    LET parts == Split(sz.s, ",")
    IN IF Len(parts) = 1 THEN PairV(StrV(parts[1]), IntV(2))
       ELSE PairV(StrV(parts[1]), StrV(parts[2]))

_parse_decimal_size_int(sz, column_name) == PairV(sz, IntV(2))

_parse_decimal_size_float(sz, column_name) ==
    LET parts == Split(StrOfFloat(sz), ".")
    IN PairV(StrV(parts[1]), StrV(parts[2]))

\* singledispatch on type(size)
parse_decimal_size(sz, column_name) ==
    CASE sz.t \in {"tuple", "list"} -> _parse_decimal_size_list(sz, column_name)
      [] sz.t = "str" -> _parse_decimal_size_str(sz, column_name)
      [] sz.t = "int" -> _parse_decimal_size_int(sz, column_name)
      [] sz.t = "float" -> _parse_decimal_size_float(sz, column_name)
      [] OTHER -> parse_decimal_size_default(sz, column_name)

RECURSIVE StrJoin(_)
\* the str made of the characters
StrJoin(chars) == IF chars = <<>> THEN "" ELSE chars[1] \o StrJoin(Tail(chars))

\* str(v) of an int or a str
PyStr(v) == IF v.t = "int" THEN ToString(v.n) ELSE StrJoin(v.s)

\* '({},{})'.format(*args): each {} takes the next positional argument
FormatSize(args) ==
    IF Len(args) < 2 THEN Raise("IndexError")
    ELSE Ok(<<"(", PyStr(args[1]), ",", PyStr(args[2]), ")">>)

----------------------------------------------------------------------------
(* mysql.py: class MySQL *)

MySQL_columns_mapping ==
    [k \in {"Bool", "UUID", "RawStr", "Pickle", "JSON", "DateTime", "Date",
            "Time", "Enum", "NativeEnum"} |->
        CASE k = "Bool" -> "tinyint"
          [] k = "UUID" -> "blob"
          [] k = "RawStr" -> "blob"
          [] k = "Pickle" -> "varbinary"
          [] k = "JSON" -> "blob"
          [] k = "DateTime" -> "datetime"
          [] k = "Date" -> "date"
          [] k = "Time" -> "time"
          [] k = "Enum" -> "integer"
          [] k = "NativeEnum" -> "enum"]

\* MySQL.engine
MySQL_engine(m) == IF m.engine = NoAttr THEN "InnoDB" ELSE m.engine

\* getattr(self.model, '__on_update__', 'RESTRICT') and '__on_delete__'
OnAction(v) == IF v = NoAttr THEN "RESTRICT" ELSE v

\* mutant: the policies are not read from the model
MySQL_reference_restrict(m, ref) ==
    <<"INDEX ", BQ, ref.remote_table, "_ind", BQ, " (", BQ, ref.local,
      BQ, "), FOREIGN KEY (", BQ, ref.local, BQ, ") REFERENCES ", BQ, ref.remote_table,
      BQ, "(", BQ, ref.remote, BQ, ") ON UPDATE ", "RESTRICT",
      " ON DELETE ", "RESTRICT">>

\* the query built for one Reference
MySQL_reference(m, ref) ==
    <<"INDEX ", BQ, ref.remote_table, "_ind", BQ, " (", BQ, ref.local,
      BQ, "), FOREIGN KEY (", BQ, ref.local, BQ, ") REFERENCES ", BQ, ref.remote_table,
      BQ, "(", BQ, ref.remote, BQ, ") ON UPDATE ", OnAction(m.on_update),
      " ON DELETE ", OnAction(m.on_delete)>>

\* mutant: the engine is not looked at
MySQL_parse_references_any_engine(m) ==
    Ok(Join(", ", [i \in 1..Len(m.references) |->
                       MySQL_reference(m, m.references[i])]))

MySQL_parse_references(m) ==
    IF MySQL_engine(m) /= "InnoDB" THEN NoneV
    ELSE Ok(Join(", ", [i \in 1..Len(m.references) |->
                            MySQL_reference(m, m.references[i])]))

\* mutant: a class the mapping lacks is an error instead of 'text'
MySQL_parse_fallback_strict(column) ==
    IF column.kind \in DOMAIN MySQL_columns_mapping
    THEN Ok(<<MySQL_columns_mapping[column.kind]>>)
    ELSE Raise("KeyError")

\* MySQL.parse: the fallback of the dispatch
MySQL_parse_fallback(column) ==
    Ok(<<Get(MySQL_columns_mapping, column.kind, "text")>>)

MySQL_parse_int(column) ==
    Ok(<<Lower(column.kind)>>
       \o (IF column.size.t /= "Undef"
           THEN <<"(", ToString(column.size.n), ")">> ELSE <<>>)
       \o (IF column.unsigned THEN <<" UNSIGNED">> ELSE <<>>)
       \o (IF column.auto_increment THEN <<" AUTO_INCREMENT">> ELSE <<>>))

MySQL_parse_decimal(column) ==
    LET parsed == parse_decimal_size(column.size, column.kind)
    IN IF ~parsed.ok THEN parsed
       ELSE LET formatted == FormatSize(<<parsed>>)
            IN IF ~formatted.ok THEN formatted
               ELSE Ok(<<Lower(column.kind)>> \o formatted.text)

\* self.parse after __init__: singledispatch on the column's class
MySQL_parse(column) ==
    CASE column.kind \in IntKinds -> MySQL_parse_int(column)
      [] column.kind = "Decimal" -> MySQL_parse_decimal(column)
      [] column.kind = "Unicode" -> Common_parse_unicode(column)
      [] column.kind = "Float" -> Common_parse_float(column)
      [] OTHER -> MySQL_parse_fallback(column)

\* mutant: a bool default is not turned into an int
MySQL_default_bool_literal(column) ==
    DefaultClause(column.default,
        column.variable_class \in TemporalVariables /\ column.default.t /= "Undef")

MySQL_default(column) ==
    LET value == BoolToInt(column.default)
    IN DefaultClause(value,
           column.variable_class \in TemporalVariables /\ value.t /= "Undef")

MySQL_parse_column(column) ==
    LET type == MySQL_parse(column)
    IN IF ~type.ok THEN type
       ELSE Ok(<<BQ, column.attr, BQ, " ">> \o type.text
               \o Common_null_allowed(column) \o MySQL_default(column))

\* mutant: the labels are taken from the last key down
EnumLabels_descending(data) ==
    [i \in 1..Cardinality(DOMAIN data) |->
        <<"'", data[Cardinality(DOMAIN data) + 1 - i], "'">>]

\* the labels data[1], ..., data[len(data)], each quoted
EnumLabels(data) ==
    [i \in 1..Cardinality(DOMAIN data) |-> <<"'", data[i], "'">>]

\* data[i] raises KeyError for a key the mapping lacks
EnumKeysOk(data) == \A i \in 1..Cardinality(DOMAIN data) : i \in DOMAIN data

\* mutant: the column's variable class is not looked at
MySQL_parse_enum_unchecked(column) ==
    IF ~EnumKeysOk(column.reverse_map) THEN Raise("KeyError")
    ELSE Ok(<<BQ, column.attr, BQ, " enum(">>
            \o Join(", ", EnumLabels(column.reverse_map)) \o <<")">>)

MySQL_parse_enum(column) ==
    IF column.variable_class /= "NativeEnumVariable"
    THEN Raise("MySQLNotEnumColumn")
    ELSE IF ~EnumKeysOk(column.reverse_map) THEN Raise("KeyError")
    ELSE Ok(<<BQ, column.attr, BQ, " enum(">>
            \o Join(", ", EnumLabels(column.reverse_map)) \o <<")">>)

\* str(self.model.__storm_primary__) of a str or a tuple of str
StrOfPrimary(sp) ==
    IF sp.t = "str" THEN <<sp.v[1]>>
    ELSE <<"(">> \o Join(", ", [i \in 1..Len(sp.v) |-> <<"'", sp.v[i], "'">>])
         \o (IF Len(sp.v) = 1 THEN <<",">> ELSE <<>>) \o <<")">>

\* text.replace(old, new), old one character
Replace(text, old, new) ==
    [i \in 1..Len(text) |-> IF text[i] = old THEN new ELSE text[i]]

\* the first column of _storm_columns.values() with primary == 1 (0: none)
FirstPrimary(m) ==
    IF \E i \in 1..Len(m.columns) : m.columns[i].primary = 1
    THEN CHOOSE i \in 1..Len(m.columns) :
             /\ m.columns[i].primary = 1
             /\ \A j \in 1..(i - 1) : m.columns[j].primary /= 1
    ELSE 0

\* mutant: a model without primary key gets an empty key instead of the error
MySQL_detect_primary_key_empty(m) ==
    IF m.storm_primary.t = "none"
    THEN IF FirstPrimary(m) /= 0
         THEN Ok(<<"PRIMARY KEY(", BQ, m.columns[FirstPrimary(m)].name, BQ, ")">>)
         ELSE Ok(<<"PRIMARY KEY(", BQ, BQ, ")">>)
    ELSE Ok(<<"PRIMARY KEY ">> \o Replace(StrOfPrimary(m.storm_primary), "'", BQ))

MySQL_detect_primary_key(m) ==
    IF m.storm_primary.t = "none"
    THEN IF FirstPrimary(m) /= 0
         THEN Ok(<<"PRIMARY KEY(", BQ, m.columns[FirstPrimary(m)].name, BQ, ")">>)
         ELSE Raise("MySQLMissingPrimaryKey")
    ELSE Ok(<<"PRIMARY KEY ">> \o Replace(StrOfPrimary(m.storm_primary), "'", BQ))

MySQL_drop_table(m, dtb) ==
    LET existance == Get(dtb, "drop_if_exists", PyNone)
    IN Ok(<<"DROP TABLE ">>
          \o (IF Truthy(existance) THEN <<"IF EXISTS ">> ELSE <<>>)
          \o <<BQ, m.table, BQ>>)

\* one line of the column loop of create_table
MySQL_column_line(column) ==
    LET parsed == IF column.variable_class /= "NativeEnumVariable"
                  THEN MySQL_parse_column(column)
                  ELSE MySQL_parse_enum(column)
    IN IF ~parsed.ok THEN parsed ELSE Ok(<<"  ">> \o parsed.text \o <<",\n">>)

RECURSIVE MySQL_column_lines_reversed(_, _)
\* mutant: the lines are put in front of the query, so they come out reversed
MySQL_column_lines_reversed(m, i) ==
    IF i > Len(m.columns) THEN Ok(<<>>)
    ELSE LET line == MySQL_column_line(m.columns[i])
         IN IF ~line.ok THEN line
            ELSE LET rest == MySQL_column_lines_reversed(m, i + 1)
                 IN IF ~rest.ok THEN rest ELSE Ok(rest.text \o line.text)

RECURSIVE MySQL_column_lines(_, _)
\* the column loop from column i on: the lines, or the first error raised
MySQL_column_lines(m, i) ==
    IF i > Len(m.columns) THEN Ok(<<>>)
    ELSE LET line == MySQL_column_line(m.columns[i])
         IN IF ~line.ok THEN line
            ELSE LET rest == MySQL_column_lines(m, i + 1)
                 IN IF ~rest.ok THEN rest ELSE Ok(line.text \o rest.text)

MySQL_create_header(m, ctb) ==
    <<"CREATE TABLE ">>
    \o (IF Truthy(Get(ctb, "create_table_if_not_exists", PyNone))
        THEN <<"IF NOT EXISTS ", BQ, m.table, BQ>>
        ELSE <<BQ, m.table, BQ>>)
    \o <<" (\n">>

\* the condition guarding the preceding DROP TABLE
DropBeforeCreate(ctb) ==
    /\ Truthy(Get(ctb, "drop_table", PyNone))
    /\ ~Truthy(Get(ctb, "create_if_not_exists", PyNone))

MySQL_create_table(m, ctb, dtb) ==
    LET lines == MySQL_column_lines(m, 1)
        pk == MySQL_detect_primary_key(m)
        refs == MySQL_parse_references(m)
    IN IF ~lines.ok THEN lines
       ELSE IF ~pk.ok THEN pk
       ELSE LET query == MySQL_create_header(m, ctb) \o lines.text
                         \o <<"  ">> \o pk.text \o <<"\n">>
                         \o (IF TruthyStr(refs) THEN <<", ">> \o refs.text
                             ELSE <<>>)
                         \o <<"\n) ENGINE=", MySQL_engine(m),
                              " DEFAULT CHARSET=utf8;\n">>
            IN IF DropBeforeCreate(ctb)
               THEN Ok(MySQL_drop_table(m, dtb).text \o <<";\n">> \o query)
               ELSE Ok(query)

----------------------------------------------------------------------------
(* postgres.py: class PostgreSQL *)

PostgreSQL_columns_mapping ==
    [k \in {"Bool", "UUID", "RawStr", "Pickle", "JSON", "DateTime", "Date",
            "Time", "TimeDelta", "Enum", "Decimal"} |->
        CASE k = "Bool" -> "bool"
          [] k = "UUID" -> "uuid"
          [] k = "RawStr" -> "bytea"
          [] k = "Pickle" -> "bytea"
          [] k = "JSON" -> "json"
          [] k = "DateTime" -> "timestamp"
          [] k = "Date" -> "date"
          [] k = "Time" -> "time"
          [] k = "TimeDelta" -> "interval"
          [] k = "Enum" -> "integer"
          [] k = "Decimal" -> "decimal"]

\* the query built for one Reference
PostgreSQL_reference(m, ref) ==
    <<"ALTER TABLE ", m.table, " ADD CONSTRAINT ", ref.remote_table,
      "_ind FOREIGN KEY (", ref.local, ") REFERENCES ", ref.remote_table,
      "(", ref.remote, ") ON UPDATE ", OnAction(m.on_update),
      " ON DELETE ", OnAction(m.on_delete), ";\n">>

PostgreSQL_parse_references(m) ==
    Ok(Join(", ", [i \in 1..Len(m.references) |->
                       PostgreSQL_reference(m, m.references[i])]))

\* PostgreSQL.parse: the fallback of the dispatch
PostgreSQL_parse_fallback(column) ==
    Ok(<<Get(PostgreSQL_columns_mapping, column.kind, "text")>>)

\* mutant: every auto-increment integer becomes serial
PostgreSQL_parse_int_always_serial(column) ==
    IF column.auto_increment THEN Ok(<<"serial">>)
    ELSE Ok(<<Lower(column.kind)>>)

PostgreSQL_parse_int(column) ==
    IF column.auto_increment
    THEN Ok(<<CASE Lower(column.kind) = "smallint" -> "smallserial"
                [] Lower(column.kind) = "bigint" -> "bigserial"
                [] OTHER -> "serial">>)
    ELSE Ok(<<Lower(column.kind)>>)

\* mutant: a List without array definition silently becomes a text array
PostgreSQL_parse_list_defaults(column) ==
    IF column.array = PyNone THEN Ok(<<"text[]">>)
    ELSE Ok(<<column.array>>)

PostgreSQL_parse_list(column) ==
    IF column.array = PyNone THEN Raise("PostgreSQLMissingArrayDefinition")
    ELSE Ok(<<column.array>>)

\* PostgreSQL._parse_enum
PostgreSQL_parse_enum_type(column) == Ok(<<"enum_", column.attr>>)

\* self.parse after __init__: singledispatch on the column's class
PostgreSQL_parse(column) ==
    CASE column.kind \in IntKinds -> PostgreSQL_parse_int(column)
      [] column.kind = "Unicode" -> Common_parse_unicode(column)
      [] column.kind = "Float" -> Common_parse_float(column)
      [] column.kind = "List" -> PostgreSQL_parse_list(column)
      [] column.kind = "NativeEnum" -> PostgreSQL_parse_enum_type(column)
      [] OTHER -> PostgreSQL_parse_fallback(column)

PostgreSQL_parse_column(column) ==
    LET type == PostgreSQL_parse(column)
    IN IF ~type.ok THEN type
       ELSE Ok(<<column.attr, " ">> \o type.text
               \o Common_null_allowed(column) \o Common_default(column))

PostgreSQL_parse_enum(column) ==
    IF column.variable_class /= "NativeEnumVariable"
    THEN Raise("PostgreSQLNotEnumColumn")
    ELSE IF ~EnumKeysOk(column.reverse_map) THEN Raise("KeyError")
    ELSE Ok(<<"CREATE TYPE ", "enum_", column.attr, " AS ENUM ", "(">>
            \o Join(", ", EnumLabels(column.reverse_map)) \o <<")", ";\n">>)

PostgreSQL_detect_primary_key(m) ==
    IF m.storm_primary.t = "none"
    THEN IF FirstPrimary(m) /= 0
         THEN Ok(<<"CONSTRAINT ", m.table, "_pkey", " PRIMARY KEY(",
                   m.columns[FirstPrimary(m)].name, ")">>)
         ELSE Raise("PostgreSQLMissingPrimaryKey")
    ELSE Ok(<<"CONSTRAINT ", m.table, "_pkey", " PRIMARY KEY ">>
            \o StrOfPrimary(m.storm_primary))

PostgreSQL_drop_table(m, dtb) ==
    LET existance == Get(dtb, "drop_if_exists", PyNone)
        restrict == Get(dtb, "restrict", PyTrue)
        cascade == Get(dtb, "cascade", PyFalse)
    IN Ok(<<"DROP TABLE ">>
          \o (IF Truthy(existance) THEN <<"IF EXISTS ">> ELSE <<>>)
          \o <<m.table>>
          \o (IF Truthy(restrict) THEN <<" RESTRICT">> ELSE <<>>)
          \o (IF Truthy(cascade) THEN <<" CASCADE">> ELSE <<>>))

\* one pass of the column loop of create_table: the enum declaration (if any)
\* and the column's line
PostgreSQL_column_line(column) ==
    LET enum == IF column.variable_class /= "NativeEnumVariable"
                THEN Ok(<<>>) ELSE PostgreSQL_parse_enum(column)
        parsed == PostgreSQL_parse_column(column)
    IN IF ~enum.ok THEN enum
       ELSE IF ~parsed.ok THEN parsed
       ELSE [ok |-> TRUE, err |-> "", val |-> "str",
             text |-> <<"  ">> \o parsed.text \o <<",\n">>,
             enums |-> enum.text]

RECURSIVE PostgreSQL_column_lines(_, _)
\* the column loop from column i on: the lines and the enums list, or the
\* first error raised
PostgreSQL_column_lines(m, i) ==
    IF i > Len(m.columns)
    THEN [ok |-> TRUE, err |-> "", val |-> "str", text |-> <<>>, enums |-> <<>>]
    ELSE LET line == PostgreSQL_column_line(m.columns[i])
         IN IF ~line.ok THEN line
            ELSE LET rest == PostgreSQL_column_lines(m, i + 1)
                 IN IF ~rest.ok THEN rest
                    ELSE [ok |-> TRUE, err |-> "", val |-> "str",
                          text |-> line.text \o rest.text,
                          enums |-> line.enums \o rest.enums]

PostgreSQL_create_header(m, ctb) ==
    <<"CREATE TABLE ">>
    \o (IF Truthy(Get(ctb, "create_table_if_not_exists", PyNone))
        THEN <<"IF NOT EXISTS ", m.table>>
        ELSE <<m.table>>)
    \o <<" (\n">>

\* mutant: the enum declarations are appended after the table statement
PostgreSQL_create_table_enums_last(m, ctb, dtb) ==
    LET lines == PostgreSQL_column_lines(m, 1)
        pk == PostgreSQL_detect_primary_key(m)
    IN IF ~lines.ok THEN lines
       ELSE IF ~pk.ok THEN pk
       ELSE LET query == PostgreSQL_create_header(m, ctb)
                         \o lines.text \o <<"  ">> \o pk.text \o <<"\n);\n">>
                         \o lines.enums
            IN IF DropBeforeCreate(ctb)
               THEN Ok(PostgreSQL_drop_table(m, dtb).text \o <<";\n">> \o query)
               ELSE Ok(query)

PostgreSQL_create_table(m, ctb, dtb) ==
    LET lines == PostgreSQL_column_lines(m, 1)
        pk == PostgreSQL_detect_primary_key(m)
    IN IF ~lines.ok THEN lines
       ELSE IF ~pk.ok THEN pk
       ELSE LET query == lines.enums \o PostgreSQL_create_header(m, ctb)
                         \o lines.text \o <<"  ">> \o pk.text \o <<"\n);\n">>
            IN IF DropBeforeCreate(ctb)
               THEN Ok(PostgreSQL_drop_table(m, dtb).text \o <<";\n">> \o query)
               ELSE Ok(query)

----------------------------------------------------------------------------
(* The adapter's methods, by backend *)

create_table(b, m, ctb, dtb) ==
    IF b = "MySQL" THEN MySQL_create_table(m, ctb, dtb)
    ELSE PostgreSQL_create_table(m, ctb, dtb)

drop_table(b, m, dtb) ==
    IF b = "MySQL" THEN MySQL_drop_table(m, dtb) ELSE PostgreSQL_drop_table(m, dtb)

detect_primary_key(b, m) ==
    IF b = "MySQL" THEN MySQL_detect_primary_key(m)
    ELSE PostgreSQL_detect_primary_key(m)

parse_references(b, m) ==
    IF b = "MySQL" THEN MySQL_parse_references(m)
    ELSE PostgreSQL_parse_references(m)

parse(b, column) ==
    IF b = "MySQL" THEN MySQL_parse(column) ELSE PostgreSQL_parse(column)

parse_column(b, column) ==
    IF b = "MySQL" THEN MySQL_parse_column(column)
    ELSE PostgreSQL_parse_column(column)

parse_enum(b, column) ==
    IF b = "MySQL" THEN MySQL_parse_enum(column) ELSE PostgreSQL_parse_enum(column)

----------------------------------------------------------------------------
(* Inputs: model definitions and configurations *)

MaxCols == 2
MaxLabels == 2
MaxRefs == 2
MaxKey == 2
MaxPrecision == 11
MaxScale == 10

Backends == {"MySQL", "PostgreSQL"}

AttrName(i) ==
    CASE i = 1 -> "id"
      [] i = 2 -> "name"
      [] i = 3 -> "status"
      [] OTHER -> "attr" \o ToString(i)

LabelName(i) ==
    CASE i = 1 -> "a"
      [] i = 2 -> "b"
      [] i = 3 -> "c"
      [] OTHER -> "label" \o ToString(i)

\* the _reverse_map of a NativeEnum of n values: keys 1..n
Labels(n) == [i \in 1..n |-> LabelName(i)]

BaseColumn(attr, kind) ==
    [attr |-> attr, name |-> attr, kind |-> kind,
     variable_class |-> VariableClass(kind), primary |-> 0, size |-> Undef,
     unsigned |-> FALSE, auto_increment |-> FALSE, array |-> PyNone,
     reverse_map |-> <<>>, allow_none |-> TRUE, default |-> NoDefault]

\* the property definitions an attribute may be given
ColumnChoices(attr) ==
    {[BaseColumn(attr, "Int") EXCEPT !.primary = 1, !.auto_increment = TRUE,
                                     !.unsigned = TRUE, !.allow_none = FALSE],
     [BaseColumn(attr, "Int") EXCEPT !.size = IntV(11), !.default = [t |-> "int", v |-> "0"]],
     [BaseColumn(attr, "Unicode") EXCEPT !.primary = 1, !.size = IntV(64),
                                         !.name = "db_" \o attr],
     [BaseColumn(attr, "Unicode") EXCEPT !.allow_none = FALSE],
     [BaseColumn(attr, "Decimal") EXCEPT !.size = TupleV(<<IntV(10), IntV(2)>>)],
     [BaseColumn(attr, "List") EXCEPT !.array = "integer[3][3]"],
     BaseColumn(attr, "List"),
     [BaseColumn(attr, "Bool") EXCEPT !.default = [t |-> "bool", v |-> "True"]],
     [BaseColumn(attr, "DateTime") EXCEPT
          !.default = [t |-> "datetime", v |-> "2012-12-21 00:00:00"]]}
    \cup {[BaseColumn(attr, "NativeEnum") EXCEPT !.reverse_map = Labels(n),
                                                  !.allow_none = FALSE]
          : n \in 1..MaxLabels}

\* _storm_columns of n attributes, in the order keys() and values() give
ColumnSeqs(n) ==
    {cs \in [1..n -> UNION {ColumnChoices(AttrName(i)) : i \in 1..n}] :
        \A i \in 1..n : cs[i].attr = AttrName(i)}

RefChoices ==
    {[local |-> "customer_id", remote |-> "id", remote_table |-> "customer"],
     [local |-> "city_code", remote |-> "code", remote_table |-> "city"]}

\* the model's References, in the order classify_class_attrs gives
RefSeqs == UNION {[1..n -> RefChoices] : n \in 0..MaxRefs}

Engines == {NoAttr, "InnoDB", "MyISAM"}
Policies == {NoAttr, "CASCADE", "SET NULL"}

NoPrimary == [t |-> "none", v |-> <<>>]

\* __storm_primary__: absent, one attribute name or a tuple of names
StormPrimaries ==
    {NoPrimary}
    \cup {[t |-> "str", v |-> <<AttrName(i)>>] : i \in 1..MaxKey}
    \cup UNION {{[t |-> "tuple", v |-> names] :
                     names \in [1..n -> {AttrName(i) : i \in 1..MaxKey}]}
                : n \in 1..MaxKey}

\* a behaviours dict: any of the keys, each True or False
Behaviours(keys) == UNION {[present -> {PyTrue, PyFalse}] : present \in SUBSET keys}

CreateKeys == {"create_table_if_not_exists", "drop_table", "create_if_not_exists"}
DropKeys == {"drop_if_exists", "restrict", "cascade"}

EmptyDict == [k \in {} |-> PyNone]

Model(columns, references, engine, on_update, on_delete, storm_primary) ==
    [table |-> "address", columns |-> columns, references |-> references,
     engine |-> engine, on_update |-> on_update, on_delete |-> on_delete,
     storm_primary |-> storm_primary]

\* a few models for the runs that vary something else than the columns
FewColumns ==
    {cs \in ColumnSeqs(2) :
        /\ cs[1].kind \in {"Int", "List"}
        /\ cs[1].array = PyNone
        /\ cs[2].kind \in {"NativeEnum", "Unicode"}
        /\ cs[2].primary = 0
        /\ Len(cs[2].reverse_map) \in {0, 1}}

\* integer and enum columns, for the models keyed by __storm_primary__
KeyedColumns ==
    {cs \in ColumnSeqs(2) : \A i \in 1..2 : cs[i].kind \in {"Int", "NativeEnum"}}

NoLiteral == [enc |-> "none", p |-> 0, s |-> 0]

\* the value the written size evaluates to
SizeOf(lit) ==
    CASE lit.enc = "tuple" -> TupleV(<<IntV(lit.p), IntV(lit.s)>>)
      [] lit.enc = "str2" -> StrV(Digits(lit.p) \o <<",">> \o Digits(lit.s))
      [] lit.enc = "str1" -> StrV(Digits(lit.p))
      [] lit.enc = "int" -> IntV(lit.p)
      [] lit.enc = "float" -> FloatV(lit.p, Digits(lit.s))
      [] OTHER -> Undef

Literals ==
    {[enc |-> e, p |-> p, s |-> s] :
        e \in {"tuple", "str2", "float"}, p \in 1..MaxPrecision, s \in 0..MaxScale}
    \cup {[enc |-> e, p |-> p, s |-> 2] : e \in {"str1", "int"}, p \in 1..MaxPrecision}
    \cup {NoLiteral}

\* the Decimal column of the given size
DecimalColumn(sz) == [BaseColumn("price", "Decimal") EXCEPT !.size = sz]

----------------------------------------------------------------------------
(* The state machine: a model and a configuration, then calls *)

NoCall ==
    /\ op = ""
    /\ arg = 0
    /\ result = NoneV

NoDecimal ==
    /\ literal = NoLiteral
    /\ size = Undef

\* models that vary in their columns
InitColumns ==
    /\ backend \in Backends
    /\ \E n \in 1..MaxCols : \E cs \in ColumnSeqs(n) :
          model = Model(cs, <<>>, NoAttr, NoAttr, NoAttr, NoPrimary)
    /\ create_table_behaviours = EmptyDict
    /\ drop_table_behaviours = EmptyDict
    /\ NoDecimal
    /\ NoCall

\* every configuration of the create behaviours
InitCreateConfig ==
    /\ backend \in Backends
    /\ \E cs \in FewColumns :
          model = Model(cs, <<>>, NoAttr, NoAttr, NoAttr, NoPrimary)
    /\ create_table_behaviours \in Behaviours(CreateKeys)
    /\ drop_table_behaviours \in
          {EmptyDict, [k \in {"drop_if_exists"} |-> PyTrue],
           [k \in {"restrict", "cascade"} |-> IF k = "cascade" THEN PyTrue ELSE PyFalse]}
    /\ NoDecimal
    /\ NoCall

\* every configuration of the drop behaviours
InitDropConfig ==
    /\ backend \in Backends
    /\ \E cs \in FewColumns :
          model = Model(cs, <<>>, NoAttr, NoAttr, NoAttr, NoPrimary)
    /\ create_table_behaviours \in {EmptyDict, [k \in {"drop_table"} |-> PyTrue]}
    /\ drop_table_behaviours \in Behaviours(DropKeys)
    /\ NoDecimal
    /\ NoCall

\* models that vary in their references, engine and policies
InitReferences ==
    /\ backend \in Backends
    /\ \E cs \in FewColumns, refs \in RefSeqs, e \in Engines, u \in Policies,
          d \in Policies :
          model = Model(cs, refs, e, u, d, NoPrimary)
    /\ create_table_behaviours = EmptyDict
    /\ drop_table_behaviours = EmptyDict
    /\ NoDecimal
    /\ NoCall

\* models with an explicit __storm_primary__
InitPrimary ==
    /\ backend \in Backends
    /\ \E cs \in KeyedColumns, sp \in StormPrimaries :
          model = Model(cs, <<>>, NoAttr, NoAttr, NoAttr, sp)
    /\ create_table_behaviours \in {EmptyDict, [k \in {"drop_table"} |-> PyTrue]}
    /\ drop_table_behaviours = EmptyDict
    /\ NoDecimal
    /\ NoCall

Init ==
    \/ InitColumns
    \/ InitCreateConfig
    \/ InitDropConfig
    \/ InitReferences
    \/ InitPrimary

Inputs == <<backend, model, create_table_behaviours, drop_table_behaviours,
            literal, size>>

CreateTable ==
    /\ op' = "create_table"
    /\ arg' = 0
    /\ result' = create_table(backend, model, create_table_behaviours,
                              drop_table_behaviours)
    /\ UNCHANGED Inputs

DropTable ==
    /\ op' = "drop_table"
    /\ arg' = 0
    /\ result' = drop_table(backend, model, drop_table_behaviours)
    /\ UNCHANGED Inputs

DetectPrimaryKey ==
    /\ op' = "detect_primary_key"
    /\ arg' = 0
    /\ result' = detect_primary_key(backend, model)
    /\ UNCHANGED Inputs

ParseReferences ==
    /\ op' = "parse_references"
    /\ arg' = 0
    /\ result' = parse_references(backend, model)
    /\ UNCHANGED Inputs

Parse(i) ==
    /\ op' = "parse"
    /\ arg' = i
    /\ result' = parse(backend, model.columns[i])
    /\ UNCHANGED Inputs

ParseColumn(i) ==
    /\ op' = "parse_column"
    /\ arg' = i
    /\ result' = parse_column(backend, model.columns[i])
    /\ UNCHANGED Inputs

ParseEnum(i) ==
    /\ op' = "parse_enum"
    /\ arg' = i
    /\ result' = parse_enum(backend, model.columns[i])
    /\ UNCHANGED Inputs

Next ==
    \/ CreateTable
    \/ DropTable
    \/ DetectPrimaryKey
    \/ ParseReferences
    \/ \E i \in 1..Len(model.columns) : Parse(i)
    \/ \E i \in 1..Len(model.columns) : ParseColumn(i)
    \/ \E i \in 1..Len(model.columns) : ParseEnum(i)

Spec == Init /\ [][Next]_vars

\* a Decimal column of every written size, on the MySQL backend
InitDecimal ==
    /\ backend = "MySQL"
    /\ literal \in Literals
    /\ size = SizeOf(literal)
    /\ model = Model(<<DecimalColumn(size)>>, <<>>, NoAttr, NoAttr, NoAttr,
                     NoPrimary)
    /\ create_table_behaviours = EmptyDict
    /\ drop_table_behaviours = EmptyDict
    /\ NoCall

ParseDecimalSize ==
    /\ op' = "parse_decimal_size"
    /\ arg' = 1
    /\ result' = parse_decimal_size(size, model.columns[1].kind)
    /\ UNCHANGED Inputs

ParseDecimal ==
    /\ op' = "parse_decimal"
    /\ arg' = 1
    /\ result' = MySQL_parse_decimal(model.columns[1])
    /\ UNCHANGED Inputs

NextDecimal == ParseDecimalSize \/ ParseDecimal

SpecDecimal == InitDecimal /\ [][NextDecimal]_vars

----------------------------------------------------------------------------
(* One column of every kind and option, and the calls that translate it *)

\* the property classes: storm's, mamba's, and one the adapters do not know
Kinds ==
    IntKinds \cup {"Unicode", "Float", "Decimal", "List", "NativeEnum", "Bool",
                   "UUID", "RawStr", "Pickle", "JSON", "DateTime", "Date",
                   "Time", "TimeDelta", "Enum", "Custom"}

\* the classes self.parse.register() gives a handler
MySQL_registered == IntKinds \cup {"Decimal", "Unicode", "Float"}
PostgreSQL_registered == IntKinds \cup {"Unicode", "Float", "List", "NativeEnum"}

SizesOf(kind) ==
    CASE kind \in IntKinds -> {Undef, IntV(5), IntV(11)}
      [] kind = "Unicode" -> {Undef, IntV(64)}
      [] kind = "Decimal" -> {TupleV(<<IntV(10), IntV(2)>>)}
      [] OTHER -> {Undef}

FlagsOf(kind) == IF kind \in IntKinds THEN BOOLEAN ELSE {FALSE}

ArraysOf(kind) ==
    IF kind = "List" THEN {PyNone, "integer[3][3]", "integer ARRAY"} ELSE {PyNone}

MapsOf(kind) ==
    IF kind = "NativeEnum" THEN {Labels(n) : n \in 1..MaxLabels} ELSE {<<>>}

\* the default values a property of the kind may be given
DefaultsOf(kind) ==
    {NoDefault} \cup
    CASE kind = "Bool" -> {[t |-> "bool", v |-> PyTrue], [t |-> "bool", v |-> PyFalse]}
      [] kind \in IntKinds -> {[t |-> "int", v |-> "0"]}
      [] kind = "Float" -> {[t |-> "float", v |-> "1.5"]}
      [] kind = "Unicode" -> {[t |-> "unicode", v |-> "abc"]}
      [] kind = "DateTime" -> {[t |-> "datetime", v |-> "2012-12-21 00:00:00"]}
      [] kind = "Date" -> {[t |-> "date", v |-> "2012-12-21"]}
      [] kind = "Time" -> {[t |-> "time", v |-> "00:00:00"]}
      [] OTHER -> {}

ColumnsOfKind(kind) ==
    {[BaseColumn("id", kind) EXCEPT !.size = s, !.unsigned = u,
                                    !.auto_increment = ai, !.array = arr,
                                    !.reverse_map = rm, !.allow_none = a,
                                    !.default = d, !.primary = p] :
        s \in SizesOf(kind), u \in FlagsOf(kind), ai \in FlagsOf(kind),
        arr \in ArraysOf(kind), rm \in MapsOf(kind), a \in BOOLEAN,
        d \in DefaultsOf(kind), p \in {0, 1}}

\* self._default(column) of the chosen backend
_default(b, column) ==
    IF b = "MySQL" THEN MySQL_default(column) ELSE Common_default(column)

InitColumn ==
    /\ backend \in Backends
    /\ \E kind \in Kinds : \E c \in ColumnsOfKind(kind) :
          model = Model(<<c>>, <<>>, NoAttr, NoAttr, NoAttr, NoPrimary)
    /\ create_table_behaviours = EmptyDict
    /\ drop_table_behaviours = EmptyDict
    /\ NoDecimal
    /\ NoCall

Default(i) ==
    /\ op' = "_default"
    /\ arg' = i
    /\ result' = Ok(_default(backend, model.columns[i]))
    /\ UNCHANGED Inputs

NextColumn ==
    \/ Parse(1)
    \/ ParseColumn(1)
    \/ ParseEnum(1)
    \/ Default(1)
    \/ CreateTable

SpecColumn == InitColumn /\ [][NextColumn]_vars

----------------------------------------------------------------------------
(* Reading a generated text *)

Count(text, piece) == Cardinality({i \in 1..Len(text) : text[i] = piece})

Has(text, piece) == \E i \in 1..Len(text) : text[i] = piece

IsPrefix(p, text) == Len(p) <= Len(text) /\ SubSeq(text, 1, Len(p)) = p

IsSuffix(p, text) ==
    Len(p) <= Len(text) /\ SubSeq(text, Len(text) - Len(p) + 1, Len(text)) = p

\* the k-th smallest position of a set of positions
Nth(positions, k) ==
    CHOOSE p \in positions : Cardinality({q \in positions : q < p}) = k - 1

\* the first position of a piece (0: none)
First(text, piece) ==
    IF Has(text, piece)
    THEN CHOOSE i \in 1..Len(text) :
             text[i] = piece /\ \A j \in 1..(i - 1) : text[j] /= piece
    ELSE 0

MissingPrimaryKey(b) == b \o "MissingPrimaryKey"

\* no column flagged primary and no __storm_primary__
NoPrimaryKey(m) ==
    /\ m.storm_primary.t = "none"
    /\ \A i \in 1..Len(m.columns) : m.columns[i].primary = 0

column_line(b, column) ==
    IF b = "MySQL" THEN MySQL_column_line(column) ELSE PostgreSQL_column_line(column)

\* the first column whose pass of the column loop raises (0: none)
FirstFailing(b, m) ==
    IF \E i \in 1..Len(m.columns) : ~column_line(b, m.columns[i]).ok
    THEN CHOOSE i \in 1..Len(m.columns) :
             /\ ~column_line(b, m.columns[i]).ok
             /\ \A j \in 1..(i - 1) : column_line(b, m.columns[j]).ok
    ELSE 0

Created == op = "create_table" /\ result.ok

\* the text starts with the drop_table() statement, ';' and a newline
DropPrecedes ==
    IsPrefix(drop_table(backend, model, drop_table_behaviours).text \o <<";\n">>,
             result.text)

----------------------------------------------------------------------------
(* C1 *)

\* C1 (as claimed): create_table's text begins with the drop_table() statement
\* exactly when drop-before-create is configured and create-if-not-exists is
\* not, and no configuration yields both a preceding DROP TABLE and a
\* CREATE TABLE IF NOT EXISTS header.
C1_DropExactlyWhenNotIfNotExists ==
    Created =>
        /\ DropPrecedes <=>
               /\ Truthy(Get(create_table_behaviours, "drop_table", PyNone))
               /\ ~Truthy(Get(create_table_behaviours,
                              "create_table_if_not_exists", PyNone))
        /\ ~(DropPrecedes /\ Has(result.text, "IF NOT EXISTS "))

----------------------------------------------------------------------------
(* C2 *)

\* C2 (as claimed): create_table on a model with no primary-flagged column
\* and no __storm_primary__ fails with the backend's missing-primary-key
\* error, whatever the columns are.
C2_AlwaysMissingPrimaryKeyError ==
    (op = "create_table" /\ NoPrimaryKey(model)) =>
        /\ ~result.ok
        /\ result.err = MissingPrimaryKey(backend)
        /\ result.text = <<>>

\* C2 (amended): on such a model create_table always fails and returns no
\* text; the error is the backend's missing-primary-key error unless a
\* column's translation raises first, and then it is that column's error;
\* detect_primary_key itself always raises the missing-primary-key error.
C2_NoPrimaryKeyNoStatement ==
    NoPrimaryKey(model) =>
        /\ op = "create_table" =>
               /\ ~result.ok
               /\ result.text = <<>>
               /\ result.err =
                      IF FirstFailing(backend, model) = 0
                      THEN MissingPrimaryKey(backend)
                      ELSE column_line(backend,
                               model.columns[FirstFailing(backend, model)]).err
        /\ op = "detect_primary_key" =>
               /\ ~result.ok
               /\ result.text = <<>>
               /\ result.err = MissingPrimaryKey(backend)

\* C2 witness: create_table raised the missing-primary-key error on a model
\* of two columns, none primary.
C2_Witness ==
    /\ op = "create_table"
    /\ NoPrimaryKey(model)
    /\ Len(model.columns) = 2
    /\ result.err = MissingPrimaryKey(backend)

----------------------------------------------------------------------------
(* C3 *)

\* the positions where a column's line starts
ColumnLineStarts(b, text) ==
    {i \in 1..(Len(text) - 2) :
        /\ text[i] = "  "
        /\ IF b = "MySQL" THEN text[i + 1] = BQ ELSE text[i + 2] = " "}

\* the attribute named by the column line starting at position i
LineAttr(b, text, i) == IF b = "MySQL" THEN text[i + 2] ELSE text[i + 1]

\* exactly one line per column, in the order of the columns
OneLinePerColumnInOrder(b, m, text) ==
    LET starts == ColumnLineStarts(b, text)
    IN /\ Cardinality(starts) = Len(m.columns)
       /\ Count(text, ",\n") = Len(m.columns)
       /\ \A k \in 1..Len(m.columns) :
              LineAttr(b, text, Nth(starts, k)) = m.columns[k].attr

PrimaryKeyPiece(b) == IF b = "MySQL" THEN "PRIMARY KEY(" ELSE " PRIMARY KEY("

\* exactly one primary-key clause, after every column line, naming the column
OnePrimaryKeyClause(b, text, name) ==
    LET p == First(text, PrimaryKeyPiece(b))
    IN /\ Count(text, PrimaryKeyPiece(b)) = 1
       /\ \A i \in ColumnLineStarts(b, text) : i < p
       /\ IF b = "MySQL" THEN text[p + 2] = name ELSE text[p + 1] = name

ExactlyOnePrimaryFlagged(m) ==
    Cardinality({i \in 1..Len(m.columns) : m.columns[i].primary = 1}) = 1

\* C3 (as claimed): for any model with exactly one primary-flagged column and
\* no relationships, create_table returns a statement with one column line
\* per column, in order, then one primary-key clause naming that column.
C3_AlwaysReturnsColumnLines ==
    (op = "create_table" /\ ExactlyOnePrimaryFlagged(model)
        /\ model.references = <<>>) =>
        /\ result.ok
        /\ OneLinePerColumnInOrder(backend, model, result.text)
        /\ OnePrimaryKeyClause(backend, result.text,
                               model.columns[FirstPrimary(model)].name)

\* C3 (amended): for a model with exactly one primary-flagged column, no
\* __storm_primary__ and no relationships, create_table either raises the
\* error of the first column whose translation fails, or returns a statement
\* with one column line per column, in order, followed by one primary-key
\* clause naming the flagged column's column name.
C3_ColumnLinesInOrder ==
    (op = "create_table" /\ ExactlyOnePrimaryFlagged(model)
        /\ model.storm_primary.t = "none" /\ model.references = <<>>) =>
        IF FirstFailing(backend, model) /= 0
        THEN /\ ~result.ok
             /\ result.err = column_line(backend,
                                 model.columns[FirstFailing(backend, model)]).err
        ELSE /\ result.ok
             /\ OneLinePerColumnInOrder(backend, model, result.text)
             /\ OnePrimaryKeyClause(backend, result.text,
                                    model.columns[FirstPrimary(model)].name)

\* C3 witness: a statement was returned for two columns, the second one the
\* primary-flagged column.
C3_Witness ==
    /\ Created
    /\ ExactlyOnePrimaryFlagged(model)
    /\ model.storm_primary.t = "none"
    /\ model.references = <<>>
    /\ Len(model.columns) = 2
    /\ model.columns[2].primary = 1

----------------------------------------------------------------------------
(* C4, C5 *)

\* C4 (as claimed): parse_decimal_size normalizes every accepted encoding of
\* a size written (p, s), "p,s", p.s to the pair of ints (p, s), and the int p
\* and the string "p" to the pair of ints (p, 2): equal values of one type.
C4_SameNormalPair ==
    (op = "parse_decimal_size" /\ literal.enc /= "none") =>
        result = PairV(IntV(literal.p), IntV(literal.s))

\* C5 (as claimed): on MySQL, translating a Decimal column whose size is
\* written in any of the accepted encodings returns decimal(p,s); it never
\* raises.
C5_DecimalFragment ==
    (op = "parse_decimal" /\ literal.enc /= "none") =>
        /\ result.ok
        /\ result.text = <<"decimal", "(", ToString(literal.p), ",",
                           ToString(literal.s), ")">>

----------------------------------------------------------------------------
(* C6 *)

RECURSIVE LabelList(_, _)
\* 'data[1]', 'data[2]', ..., 'data[n]': quoted, comma-joined, ascending
LabelList(data, n) ==
    IF n = 1 THEN <<"'", data[1], "'">>
    ELSE LabelList(data, n - 1) \o <<", ", "'", data[n], "'">>

\* the column is a native enum whose value mapping has the keys 1..N, N >= 1
NativeEnumColumn(column) ==
    /\ column.variable_class = "NativeEnumVariable"
    /\ Len(column.reverse_map) >= 1

\* C6: for a native-enum column with value mapping keyed 1..N, parse_enum
\* renders exactly the N labels, single-quoted, comma-joined, in ascending
\* key order from key 1: inline as <col> enum(...) on MySQL, as
\* CREATE TYPE enum_<col> AS ENUM (...); on PostgreSQL.
C6_EnumLabelsInKeyOrder ==
    (op = "parse_enum" /\ NativeEnumColumn(model.columns[arg])) =>
        LET column == model.columns[arg]
            labels == LabelList(column.reverse_map, Len(column.reverse_map))
        IN /\ result.ok
           /\ Count(result.text, "'") = 2 * Len(column.reverse_map)
           /\ result.text =
                  IF backend = "MySQL"
                  THEN <<BQ, column.attr, BQ, " enum(">> \o labels \o <<")">>
                  ELSE <<"CREATE TYPE ", "enum_", column.attr, " AS ENUM ", "(">>
                       \o labels \o <<")", ";\n">>

\* C6 witness: parse_enum rendered a mapping of at least two labels.
C6_Witness ==
    /\ op = "parse_enum"
    /\ result.ok
    /\ Len(model.columns[arg].reverse_map) >= 2

----------------------------------------------------------------------------
(* C7 *)

\* the positions of the CREATE TYPE declarations of enum_<attr>
EnumDeclarations(text, attr) ==
    {i \in 1..(Len(text) - 2) :
        text[i] = "CREATE TYPE " /\ text[i + 1] = "enum_" /\ text[i + 2] = attr}

EnumColumns(m) ==
    {i \in 1..Len(m.columns) : m.columns[i].variable_class = "NativeEnumVariable"}

\* C7: in the text PostgreSQL.create_table returns, every native-enum column
\* has exactly one CREATE TYPE enum_<col> AS ENUM declaration, every
\* declaration stands before the CREATE TABLE statement, the declarations
\* follow the columns' order, and the column's line uses the type enum_<col>.
C7_EnumTypesPrecedeTable ==
    (Created /\ backend = "PostgreSQL") =>
        LET text == result.text
            table == First(text, "CREATE TABLE ")
            starts == ColumnLineStarts(backend, text)
        IN /\ Count(text, "CREATE TABLE ") = 1
           /\ Count(text, "CREATE TYPE ") = Cardinality(EnumColumns(model))
           /\ \A i \in EnumColumns(model) :
                  /\ Cardinality(EnumDeclarations(text, model.columns[i].attr)) = 1
                  /\ \A p \in EnumDeclarations(text, model.columns[i].attr) :
                         p < table
                  /\ \A j \in EnumColumns(model) : i < j =>
                         \A p \in EnumDeclarations(text, model.columns[i].attr),
                            q \in EnumDeclarations(text, model.columns[j].attr) :
                             p < q
                  /\ LET line == Nth(starts, i)
                     IN /\ line > table
                        /\ SubSeq(text, line, line + 4) =
                               <<"  ", model.columns[i].attr, " ", "enum_",
                                 model.columns[i].attr>>

\* C7 witness: a PostgreSQL statement for a model of two native-enum columns.
C7_Witness ==
    /\ Created
    /\ backend = "PostgreSQL"
    /\ Cardinality(EnumColumns(model)) = 2

----------------------------------------------------------------------------
(* C8 *)

\* the positions of the foreign-key fragments
ForeignKeys(b, text) ==
    {i \in 1..Len(text) :
        text[i] = IF b = "MySQL" THEN "), FOREIGN KEY (" ELSE "_ind FOREIGN KEY ("}

\* the fragment at position p names the reference's local column, remote
\* table and remote key column, and the model's policies (RESTRICT when the
\* model configures none)
NamesReference(b, m, text, p, ref) ==
    LET on_update == IF m.on_update = NoAttr THEN "RESTRICT" ELSE m.on_update
        on_delete == IF m.on_delete = NoAttr THEN "RESTRICT" ELSE m.on_delete
    IN IF b = "MySQL"
       THEN SubSeq(text, p - 9, p + 15) =
                <<"INDEX ", BQ, ref.remote_table, "_ind", BQ, " (", BQ,
                  ref.local, BQ, "), FOREIGN KEY (", BQ, ref.local, BQ,
                  ") REFERENCES ", BQ, ref.remote_table, BQ, "(", BQ,
                  ref.remote, BQ, ") ON UPDATE ", on_update, " ON DELETE ",
                  on_delete>>
       ELSE SubSeq(text, p - 4, p + 10) =
                <<"ALTER TABLE ", m.table, " ADD CONSTRAINT ", ref.remote_table,
                  "_ind FOREIGN KEY (", ref.local, ") REFERENCES ",
                  ref.remote_table, "(", ref.remote, ") ON UPDATE ", on_update,
                  " ON DELETE ", on_delete, ";\n">>

\* exactly one fragment per reference, in order, each naming its reference
OneFragmentPerReference(b, m, text) ==
    LET fks == ForeignKeys(b, text)
    IN /\ Cardinality(fks) = Len(m.references)
       /\ \A k \in 1..Len(m.references) :
              NamesReference(b, m, text, Nth(fks, k), m.references[k])

\* MySQL with the InnoDB engine, and PostgreSQL
SupportsConstraints(b, m) == b = "PostgreSQL" \/ m.engine \in {NoAttr, "InnoDB"}

\* C8 (as claimed): on MySQL with InnoDB and on PostgreSQL, the text
\* create_table generates for a model with N relationships holds exactly N
\* foreign-key fragments, one per relationship, each naming the local column,
\* the remote table, the remote key column and the configured policies.
C8_CreateTableHoldsForeignKeys ==
    (Created /\ SupportsConstraints(backend, model)) =>
        OneFragmentPerReference(backend, model, result.text)

\* C8 (amended): on MySQL with InnoDB the text create_table generates holds
\* exactly N such fragments; on PostgreSQL create_table's text holds no
\* foreign-key fragment, and the N fragments are what parse_references
\* returns, as standalone ALTER TABLE statements.
C8_ForeignKeyPerReference ==
    /\ (Created /\ backend = "MySQL" /\ SupportsConstraints(backend, model)) =>
           OneFragmentPerReference(backend, model, result.text)
    /\ (Created /\ backend = "PostgreSQL") =>
           /\ ForeignKeys(backend, result.text) = {}
           /\ ~Has(result.text, "ALTER TABLE ")
    /\ (op = "parse_references" /\ SupportsConstraints(backend, model)) =>
           /\ result.ok
           /\ OneFragmentPerReference(backend, model, result.text)

\* C8 witness: a MySQL InnoDB statement for a model of two relationships and
\* a configured update policy.
C8_Witness ==
    /\ Created
    /\ backend = "MySQL"
    /\ SupportsConstraints(backend, model)
    /\ Len(model.references) = 2
    /\ model.references[1] /= model.references[2]
    /\ model.on_update = "CASCADE"
    /\ model.on_delete = NoAttr

----------------------------------------------------------------------------
(* C9 *)

WithoutReferences(m) == [m EXCEPT !.references = <<>>]

\* C9: on MySQL with an engine other than InnoDB, parse_references yields no
\* fragment, and create_table returns what it returns for the same model
\* without relationships: a complete statement, ended by the ENGINE trailer,
\* with no INDEX / FOREIGN KEY clause.
C9_NoReferencesWithoutInnoDB ==
    (backend = "MySQL" /\ ~SupportsConstraints(backend, model)) =>
        /\ op = "parse_references" => result = NoneV
        /\ op = "create_table" =>
               /\ result = create_table(backend, WithoutReferences(model),
                                        create_table_behaviours,
                                        drop_table_behaviours)
               /\ result.ok =>
                      /\ ~Has(result.text, "INDEX ")
                      /\ ForeignKeys(backend, result.text) = {}
                      /\ IsSuffix(<<"\n) ENGINE=", model.engine,
                                    " DEFAULT CHARSET=utf8;\n">>, result.text)

\* C9 witness: a MySQL MyISAM statement for a model of two relationships.
C9_Witness ==
    /\ Created
    /\ backend = "MySQL"
    /\ model.engine = "MyISAM"
    /\ Len(model.references) = 2

----------------------------------------------------------------------------
(* C10 *)

\* C10 (as claimed): drop_table's text has IF EXISTS exactly when
\* drop_if_exists is configured, and for every configuration of the drop
\* behaviours at most one of the keywords RESTRICT and CASCADE.
C10_RestrictOrCascade ==
    op = "drop_table" =>
        /\ result.ok
        /\ Has(result.text, "IF EXISTS ") <=>
               Truthy(Get(drop_table_behaviours, "drop_if_exists", PyNone))
        /\ ~(Has(result.text, " RESTRICT") /\ Has(result.text, " CASCADE"))

----------------------------------------------------------------------------
(* C11 *)

\* the names of an explicit primary-key specification, in declared order
ExplicitKeyNames(sp) == IF sp.t = "str" THEN <<sp.v[1]>> ELSE sp.v

\* the quoting a dialect puts around an identifier ("": none)
IdentifierQuotes(b) == IF b = "MySQL" THEN {BQ} ELSE {"", "\""}

QuotedName(name, q) == IF q = "" THEN <<name>> ELSE <<q, name, q>>

\* '(' the names, quoted and joined by sep, ')'
KeyColumnList(names, q, sep) ==
    <<"(">> \o Join(sep, [i \in 1..Len(names) |-> QuotedName(names[i], q)])
    \o <<")">>

\* C11 (as claimed): for a model with an explicit primary-key specification
\* detect_primary_key returns a clause that ends with the parenthesised list
\* of exactly the declared names, in order, comma-joined, each in the
\* dialect's identifier quoting, with no other token; on PostgreSQL the
\* clause is the named constraint <table>_pkey, on MySQL it is unnamed.
C11_ExplicitPrimaryKeyClause ==
    (op = "detect_primary_key" /\ model.storm_primary.t /= "none") =>
        /\ result.ok
        /\ \E q \in IdentifierQuotes(backend), sep \in {",", ", "},
              key \in {"PRIMARY KEY", "PRIMARY KEY ", " PRIMARY KEY",
                       " PRIMARY KEY "} :
              result.text =
                  (IF backend = "MySQL" THEN <<>>
                   ELSE <<"CONSTRAINT ", model.table, "_pkey">>)
                  \o <<key>>
                  \o KeyColumnList(ExplicitKeyNames(model.storm_primary), q, sep)

----------------------------------------------------------------------------
(* C12 *)

HasListColumn(m) == \E i \in 1..Len(m.columns) : m.columns[i].kind = "List"

\* C12 (as claimed): on MySQL, translating a List column raises an error and
\* returns no fragment, and create_table for a model that holds a List column
\* raises an error and returns no statement.
C12_MySQLListColumnFails ==
    backend = "MySQL" =>
        /\ (op \in {"parse", "parse_column"} /\ model.columns[arg].kind = "List")
               => (~result.ok /\ result.text = <<>>)
        /\ (op = "create_table" /\ HasListColumn(model))
               => (~result.ok /\ result.text = <<>>)

----------------------------------------------------------------------------
(* C13 *)

ListWithoutArray(column) == column.kind = "List" /\ column.array = PyNone

\* C13: on PostgreSQL, parse of a List column returns the column's array
\* definition as it was given, and raises PostgreSQLMissingArrayDefinition
\* when none was given; create_table for a model that holds such a column
\* returns no statement.
C13_PostgreSQLListColumn ==
    backend = "PostgreSQL" =>
        /\ (op = "parse" /\ model.columns[arg].kind = "List") =>
               IF model.columns[arg].array /= PyNone
               THEN result.ok /\ result.text = <<model.columns[arg].array>>
               ELSE /\ ~result.ok
                    /\ result.err = "PostgreSQLMissingArrayDefinition"
                    /\ result.text = <<>>
        /\ (op = "parse_column" /\ ListWithoutArray(model.columns[arg])) =>
               (~result.ok /\ result.text = <<>>)
        /\ (op = "create_table"
               /\ \E i \in 1..Len(model.columns) :
                      ListWithoutArray(model.columns[i])) =>
               (~result.ok /\ result.text = <<>>)

\* C13 witness: create_table raised the missing-array error for a model that
\* has a primary key and a List column without array definition.
C13_Witness ==
    /\ backend = "PostgreSQL"
    /\ op = "create_table"
    /\ ~NoPrimaryKey(model)
    /\ \E i \in 1..Len(model.columns) : ListWithoutArray(model.columns[i])
    /\ result.err = "PostgreSQLMissingArrayDefinition"

----------------------------------------------------------------------------
(* C14 *)

columns_mapping(b) ==
    IF b = "MySQL" THEN MySQL_columns_mapping ELSE PostgreSQL_columns_mapping

registered(b) == IF b = "MySQL" THEN MySQL_registered ELSE PostgreSQL_registered

\* C14: parse of a column whose class has no registered handler returns the
\* token the backend's _columns_mapping gives the class, and 'text' when the
\* mapping has no entry for it; it does not raise.
C14_FallbackToText ==
    (op = "parse" /\ model.columns[arg].kind \notin registered(backend)) =>
        /\ result.ok
        /\ result.text =
               IF model.columns[arg].kind \in DOMAIN columns_mapping(backend)
               THEN <<columns_mapping(backend)[model.columns[arg].kind]>>
               ELSE <<"text">>

\* C14 witness: parse returned 'text' for a column of a class the MySQL
\* adapter knows nothing about.
C14_Witness ==
    /\ backend = "MySQL"
    /\ op = "parse"
    /\ model.columns[arg].kind = "Custom"
    /\ result = Ok(<<"text">>)

----------------------------------------------------------------------------
(* C15 *)

TemporalKinds == {"DateTime", "Date", "Time"}

\* C15: _default returns the empty fragment for a column without default;
\* otherwise ' default ' and the literal: 1 or 0 for a bool default, the
\* value's str() in single quotes for a DateTime, Date or Time column, the
\* value's str() for any other.  A temporal column without default gets the
\* empty fragment, never a quoted literal.
C15_DefaultClause ==
    op = "_default" =>
        LET column == model.columns[arg]
            d == column.default
        IN /\ result.ok
           /\ result.text =
                  IF d.t = "Undef" THEN <<>>
                  ELSE IF d.t = "bool"
                       THEN <<" default ", IF d.v = PyTrue THEN "1" ELSE "0">>
                  ELSE IF column.kind \in TemporalKinds
                       THEN <<" default ", "'", d.v, "'">>
                  ELSE <<" default ", d.v>>
           /\ (column.kind \in TemporalKinds /\ d.t = "Undef")
                  => ~Has(result.text, "'")

\* C15 witness: the MySQL encoder rendered a True default as 1.
C15_Witness ==
    /\ backend = "MySQL"
    /\ op = "_default"
    /\ model.columns[arg].default = [t |-> "bool", v |-> PyTrue]
    /\ result.text = <<" default ", "1">>

----------------------------------------------------------------------------
(* C16 *)

NotEnumColumn(b) == b \o "NotEnumColumn"

\* C16: parse_enum of a column whose variable class is not NativeEnumVariable
\* raises the backend's NotEnumColumn error and returns no fragment;
\* parse_enum of a native-enum column never raises that error.
C16_NotEnumColumnError ==
    op = "parse_enum" =>
        IF model.columns[arg].variable_class /= "NativeEnumVariable"
        THEN /\ ~result.ok
             /\ result.err = NotEnumColumn(backend)
             /\ result.text = <<>>
        ELSE result.err /= NotEnumColumn(backend)

\* C16 witness: parse_enum raised MySQLNotEnumColumn for an Int column.
C16_Witness ==
    /\ backend = "MySQL"
    /\ op = "parse_enum"
    /\ model.columns[arg].kind = "Int"
    /\ result.err = "MySQLNotEnumColumn"

----------------------------------------------------------------------------
(* C17 *)

\* the end of the column line that starts at position i: its ',' and newline
LineEnd(text, i) ==
    CHOOSE j \in i..Len(text) :
        text[j] = ",\n" /\ \A l \in i..(j - 1) : text[l] /= ",\n"

\* the k-th column line of a create_table text
ColumnLine(b, text, k) ==
    LET start == Nth(ColumnLineStarts(b, text), k)
    IN SubSeq(text, start, LineEnd(text, start))

\* C17 (as claimed): in the statement create_table returns, the line of every
\* column, native-enum columns included, names the column and carries
\* NOT NULL when the column does not allow None and a default clause when the
\* column has a default.
C17_ColumnLinesCarryClauses ==
    Created =>
        /\ OneLinePerColumnInOrder(backend, model, result.text)
        /\ \A k \in 1..Len(model.columns) :
               LET line == ColumnLine(backend, result.text, k)
                   column == model.columns[k]
               IN /\ Has(line, column.attr)
                  /\ ~column.allow_none => Has(line, " NOT NULL")
                  /\ column.default.t /= "Undef" => Has(line, " default ")

----------------------------------------------------------------------------
(* C18 *)

\* the lower-cased name of an integer property class
BaseTypeName(kind) ==
    CASE kind = "SmallInt" -> "smallint"
      [] kind = "BigInt" -> "bigint"
      [] OTHER -> "int"

SerialTypeName(kind) ==
    CASE kind = "SmallInt" -> "smallserial"
      [] kind = "BigInt" -> "bigserial"
      [] OTHER -> "serial"

\* C18: parse of an integer column.  On MySQL: the lower-cased class name,
\* '(size)' only when a size is given, ' UNSIGNED' only when asked for,
\* ' AUTO_INCREMENT' only when asked for, in this order.  On PostgreSQL: the
\* lower-cased class name, or for an auto-increment column smallserial,
\* bigserial or serial, and nothing else whatever the size and unsigned are.
C18_IntegerFragment ==
    (op = "parse" /\ model.columns[arg].kind \in IntKinds) =>
        LET column == model.columns[arg]
        IN /\ result.ok
           /\ result.text =
                  IF backend = "MySQL"
                  THEN <<BaseTypeName(column.kind)>>
                       \o (IF column.size.t = "Undef" THEN <<>>
                           ELSE <<"(", ToString(column.size.n), ")">>)
                       \o (IF column.unsigned THEN <<" UNSIGNED">> ELSE <<>>)
                       \o (IF column.auto_increment THEN <<" AUTO_INCREMENT">>
                           ELSE <<>>)
                  ELSE IF column.auto_increment
                       THEN <<SerialTypeName(column.kind)>>
                       ELSE <<BaseTypeName(column.kind)>>

\* C18 witness: PostgreSQL translated an unsigned, sized, auto-increment
\* BigInt column to bigserial.
C18_Witness ==
    /\ backend = "PostgreSQL"
    /\ op = "parse"
    /\ model.columns[arg].kind = "BigInt"
    /\ model.columns[arg].auto_increment
    /\ model.columns[arg].unsigned
    /\ model.columns[arg].size.t /= "Undef"
    /\ result.text = <<"bigserial">>

====
